---- MODULE Spec2Model ----
(***************************************************************************)
(* Model of the Scopus-style query converter: tokenize, parseTokens,       *)
(* cleanupQuery and processQuery of src/unnamed/part_000, and the older    *)
(* parseTokens / cleanupQuery of src/main.go.                              *)
(*                                                                         *)
(* A Go string is a sequence of one-character strings.  A *ParsedQuery is  *)
(* either Nil or a record [AND, OR, AND_NOT, Field]; a *Field is NoField   *)
(* (the nil pointer) or the pair <<Field, Value>>.                         *)
(***************************************************************************)
EXTENDS Naturals, Sequences, FiniteSets

VARIABLES
    input,    \* the pieces the line is written from
    line,     \* processQuery's argument
    pc,       \* where the call is: start, skipped, parse, parsed, done (clean0..clean2)
    tokens,   \* tokenize's result
    pos,      \* index of the next token of parseTokens' loop
    stack,    \* parseTokens' stack
    current,  \* parseTokens' current StackItem (main.go: currentGroup, currentOperator)
    saved,    \* history: the operator current when each still open "(" was read
    parsed,   \* parseTokens' result
    result,   \* processQuery's *ParsedQuery
    err       \* processQuery's error is non-nil

vars == <<input, line, pc, tokens, pos, stack, current, saved, parsed, result, err>>

(***************************************************************************)
(* Bounds of the model.                                                    *)
(***************************************************************************)
\* A general input line is the concatenation of at most MaxPieces pieces.
MaxPieces == 4
\* The trees cleanupQuery is applied to directly have at most MaxNodes nodes.
MaxNodes == 4

(***************************************************************************)
(* Token types (const block, iota).                                        *)
(***************************************************************************)
TokenField == 0
TokenOR == 1
TokenAND == 2
TokenANDNOT == 3
TokenOpenParen == 4
TokenCloseParen == 5

(***************************************************************************)
(* String literals of the source.                                          *)
(***************************************************************************)
sTitleAbsKey == <<"T", "I", "T", "L", "E", "-", "A", "B", "S", "-", "K", "E", "Y">>
sTitleAbs == <<"T", "I", "T", "L", "E", "-", "A", "B", "S">>
sTitle == <<"T", "I", "T", "L", "E">>
sAuthKey == <<"A", "U", "T", "H", "K", "E", "Y">>
sAny == <<"A", "N", "Y">>
sOR == <<"O", "R">>
sAND == <<"A", "N", "D">>
sANDNOT == <<"A", "N", "D", "_", "N", "O", "T">>
sOpenSp == <<"(", " ">>
sSpClose == <<" ", ")">>
sSpAndNotSp == <<" ", "A", "N", "D", " ", "N", "O", "T", " ">>
sSpAndUNotSp == <<" ", "A", "N", "D", "_", "N", "O", "T", " ">>
sSpAndSp == <<" ", "A", "N", "D", " ">>
sSpOrSp == <<" ", "O", "R", " ">>
Quote == "\""
Backslash == "\\"

\* The field-function names, in the order of the regexp's alternation.
FieldNames == <<sTitleAbsKey, sTitleAbs, sTitle, sAuthKey>>

(***************************************************************************)
(* package strings                                                         *)
(***************************************************************************)
\* strings.Count(s, c) for a one-character c.
Count(s, c) == Cardinality({i \in 1..Len(s) : s[i] = c})

\* strings.Repeat(c, n) for a one-character c.
Repeat(c, n) == [i \in 1..n |-> c]

\* Whether p occurs in s at index i.
HasPrefixAt(s, i, p) ==
    /\ i + Len(p) - 1 <= Len(s)
    /\ SubSeq(s, i, i + Len(p) - 1) = p

RECURSIVE ReplaceFrom(_, _, _, _)
ReplaceFrom(s, i, old, new) ==
    IF i > Len(s) THEN <<>>
    ELSE IF HasPrefixAt(s, i, old)
         THEN new \o ReplaceFrom(s, i + Len(old), old, new)
         ELSE <<s[i]>> \o ReplaceFrom(s, i + 1, old, new)

\* strings.ReplaceAll: the non-overlapping occurrences, left to right.
ReplaceAll(s, old, new) == ReplaceFrom(s, 1, old, new)

\* The three white space characters without an escape in a string: each is one
\* character of a line, written by its code point.
VerticalTab == "U+000B"
NextLine == "U+0085"
NoBreakSpace == "U+00A0"

\* \s of the regexp: [\t\n\f\r ].
IsRegexpSpace(c) == c \in {" ", "\t", "\n", "\f", "\r"}

\* The characters above Latin-1 with the Unicode property White_Space, each
\* written by its code point.
WhiteSpaceAboveLatin1 ==
    {"U+1680", "U+2000", "U+2001", "U+2002", "U+2003", "U+2004", "U+2005",
     "U+2006", "U+2007", "U+2008", "U+2009", "U+200A", "U+2028", "U+2029",
     "U+202F", "U+205F", "U+3000"}

\* unicode.IsSpace, the characters strings.TrimSpace trims: the Latin-1 switch,
\* and the property White_Space above it.
IsSpace(c) ==
    \/ c \in {" ", "\t", "\n", VerticalTab, "\f", "\r", NextLine, NoBreakSpace}
    \/ c \in WhiteSpaceAboveLatin1

RECURSIVE TrimLeft(_)
TrimLeft(s) == IF s # <<>> /\ IsSpace(Head(s)) THEN TrimLeft(Tail(s)) ELSE s

RECURSIVE TrimRight(_)
TrimRight(s) ==
    IF s # <<>> /\ IsSpace(s[Len(s)]) THEN TrimRight(SubSeq(s, 1, Len(s) - 1)) ELSE s

TrimSpace(s) == TrimRight(TrimLeft(s))

RECURSIVE TrimQuotesLeft(_)
TrimQuotesLeft(s) ==
    IF s # <<>> /\ Head(s) = Quote THEN TrimQuotesLeft(Tail(s)) ELSE s

RECURSIVE TrimQuotesRight(_)
TrimQuotesRight(s) ==
    IF s # <<>> /\ s[Len(s)] = Quote
    THEN TrimQuotesRight(SubSeq(s, 1, Len(s) - 1))
    ELSE s

\* strings.Trim(s, `"`).
TrimQuotes(s) == TrimQuotesRight(TrimQuotesLeft(s))

\* strings.Contains(s, c) for a one-character c.
Contains(s, c) == \E i \in 1..Len(s) : s[i] = c

RECURSIVE SplitFrom(_, _, _)
SplitFrom(s, i, part) ==
    IF i > Len(s) THEN <<part>>
    ELSE IF s[i] = ":" THEN <<part>> \o SplitFrom(s, i + 1, <<>>)
         ELSE SplitFrom(s, i + 1, Append(part, s[i]))

\* strings.Split(s, ":").
Split(s) == SplitFrom(s, 1, <<>>)

(***************************************************************************)
(* The regular expressions of tokenize.  Indices are 1-based; a match is   *)
(* <<start, end>> with end the index after its last character.             *)
(***************************************************************************)
RECURSIVE SkipSpaces(_, _)
SkipSpaces(s, i) == IF i <= Len(s) /\ IsRegexpSpace(s[i]) THEN SkipSpaces(s, i + 1) ELSE i

\* The index of the first quote at or after i, Len(s) + 1 when there is none.
RECURSIVE NextQuote(_, _)
NextQuote(s, i) == IF i > Len(s) \/ s[i] = Quote THEN i ELSE NextQuote(s, i + 1)

\* name\s*\("([^"]+?)"\) at i: the end of the match, 0 when it does not match.
FieldEnd(s, i, name) ==
    IF ~HasPrefixAt(s, i, name) THEN 0
    ELSE LET k == SkipSpaces(s, i + Len(name))
             q == NextQuote(s, k + 2)
         IN IF /\ k + 1 <= Len(s)
               /\ s[k] = "("
               /\ s[k + 1] = Quote
               /\ q > k + 2
               /\ q + 1 <= Len(s)
               /\ s[q + 1] = ")"
            THEN q + 2
            ELSE 0

\* The first alternative, over the four names in order.
RECURSIVE FieldAltEnd(_, _, _)
FieldAltEnd(s, i, n) ==
    IF n > Len(FieldNames) THEN 0
    ELSE LET e == FieldEnd(s, i, FieldNames[n])
         IN IF e # 0 THEN e ELSE FieldAltEnd(s, i, n + 1)

\* "([^"]+?)" at i.
QuotedEnd(s, i) ==
    LET q == NextQuote(s, i + 1)
    IN IF s[i] = Quote /\ q > i + 1 /\ q <= Len(s) THEN q + 1 ELSE 0

\* The whole pattern at i, alternatives tried in the order written.
MatchEnd(s, i) ==
    LET f == FieldAltEnd(s, i, 1)
    IN IF f # 0 THEN f
       ELSE IF HasPrefixAt(s, i, sOR) THEN i + Len(sOR)
       ELSE IF HasPrefixAt(s, i, sANDNOT) THEN i + Len(sANDNOT)
       ELSE IF HasPrefixAt(s, i, sAND) THEN i + Len(sAND)
       ELSE IF s[i] = "(" \/ s[i] = ")" THEN i + 1
       ELSE QuotedEnd(s, i)

\* re.FindAllStringSubmatchIndex(query, -1): successive leftmost matches.
RECURSIVE FindAll(_, _)
FindAll(s, i) ==
    IF i > Len(s) THEN <<>>
    ELSE LET e == MatchEnd(s, i)
         IN IF e = 0 THEN FindAll(s, i + 1) ELSE <<<<i, e>>>> \o FindAll(s, e)

\* ((?:[^"\\]|\\.)+)"\) from j, n units taken so far: the index of the closing
\* quote of the longest match, 0 when there is none.
RECURSIVE EscapedValueEnd(_, _, _)
EscapedValueEnd(s, j, n) ==
    LET longer ==
            IF j > Len(s) THEN 0
            ELSE IF s[j] # Quote /\ s[j] # Backslash THEN EscapedValueEnd(s, j + 1, n + 1)
            ELSE IF s[j] = Backslash /\ j + 1 <= Len(s) /\ s[j + 1] # "\n"
                 THEN EscapedValueEnd(s, j + 2, n + 1)
                 ELSE 0
    IN IF longer # 0 THEN longer
       ELSE IF n >= 1 /\ j + 1 <= Len(s) /\ s[j] = Quote /\ s[j + 1] = ")" THEN j
       ELSE 0

\* The inner pattern of src/unnamed/part_000 at p for one name:
\* <<whole, name, value>>, or <<>>.
InnerAt(s, p, name) ==
    IF ~HasPrefixAt(s, p, name) THEN <<>>
    ELSE LET k == SkipSpaces(s, p + Len(name))
             q == EscapedValueEnd(s, k + 2, 0)
         IN IF k + 1 <= Len(s) /\ s[k] = "(" /\ s[k + 1] = Quote /\ q # 0
            THEN <<SubSeq(s, p, q + 1), name, SubSeq(s, k + 2, q - 1)>>
            ELSE <<>>

\* The inner pattern of src/main.go at p for one name.
InnerAtMain(s, p, name) ==
    LET e == FieldEnd(s, p, name)
        k == SkipSpaces(s, p + Len(name))
    IN IF e = 0 THEN <<>>
       ELSE <<SubSeq(s, p, e - 1), name, SubSeq(s, k + 2, e - 3)>>

\* re.FindStringSubmatch(fullMatch): leftmost position, names in order.
RECURSIVE InnerFind(_, _, _, _)
InnerFind(s, p, n, escapes) ==
    IF p > Len(s) THEN <<>>
    ELSE IF n > Len(FieldNames) THEN InnerFind(s, p + 1, 1, escapes)
    ELSE LET m == IF escapes THEN InnerAt(s, p, FieldNames[n])
                  ELSE InnerAtMain(s, p, FieldNames[n])
         IN IF m # <<>> THEN m ELSE InnerFind(s, p, n + 1, escapes)

(***************************************************************************)
(* tokenize                                                                *)
(***************************************************************************)
ZeroToken == [Type |-> TokenField, Value |-> <<>>]

\* The switch on fullMatch: the token of one match (ZeroToken: none).
TokenOf(fullMatch, escapes) ==
    IF fullMatch = sOR THEN [Type |-> TokenOR, Value |-> fullMatch]
    ELSE IF fullMatch = sAND THEN [Type |-> TokenAND, Value |-> fullMatch]
    ELSE IF fullMatch = sANDNOT THEN [Type |-> TokenANDNOT, Value |-> fullMatch]
    ELSE IF fullMatch = <<"(">> THEN [Type |-> TokenOpenParen, Value |-> fullMatch]
    ELSE IF fullMatch = <<")">> THEN [Type |-> TokenCloseParen, Value |-> fullMatch]
    ELSE IF Contains(fullMatch, "(")
         THEN LET subMatches == InnerFind(fullMatch, 1, 1, escapes)
              IN IF Len(subMatches) = 3
                 THEN [Type |-> TokenField,
                       Value |-> subMatches[2] \o <<":">> \o subMatches[3]]
                 ELSE ZeroToken
    ELSE IF fullMatch # <<>> /\ Head(fullMatch) = Quote /\ fullMatch[Len(fullMatch)] = Quote
         THEN [Type |-> TokenField, Value |-> sAny \o <<":">> \o TrimQuotes(fullMatch)]
         ELSE ZeroToken

IsOperatorType(t) == t \in {TokenOR, TokenAND, TokenANDNOT}

\* Mutant: the inserted token is an OR.
ImplicitTokenOr == [Type |-> TokenOR, Value |-> sOR]

\* The token tokenize inserts between adjacent terms.
ImplicitToken == [Type |-> TokenAND, Value |-> sAND]

\* Whether the implicit AND follows the token just appended for match k.
ImplicitAnd(query, matches, k, toks) ==
    /\ k < Len(matches)
    /\ toks[Len(toks)].Type = TokenField
    /\ TrimSpace(SubSeq(query, matches[k][2], matches[k + 1][1] - 1)) = <<>>
    /\ Len(toks) > 1
    /\ ~IsOperatorType(toks[Len(toks) - 1].Type)

\* The loop over the matches, from match k on, toks the tokens so far.
RECURSIVE EmitTokens(_, _, _, _, _)
EmitTokens(query, matches, k, toks, escapes) ==
    IF k > Len(matches) THEN toks
    ELSE LET fullMatch == TrimSpace(SubSeq(query, matches[k][1], matches[k][2] - 1))
             token == TokenOf(fullMatch, escapes)
             appended == Append(toks, token)
             next == IF token.Type # 0 \/ token.Value # <<>>
                     THEN IF ImplicitAnd(query, matches, k, appended)
                          THEN Append(appended, ImplicitToken)
                          ELSE appended
                     ELSE toks
         IN EmitTokens(query, matches, k + 1, next, escapes)

\* Mutant: " AND NOT " is not rewritten to " AND_NOT ".
PreprocessKeepsAndNot(query) ==
    LET openCount == Count(query, "(")
        closeCount == Count(query, ")")
        balanced == IF openCount > closeCount
                    THEN query \o Repeat(")", openCount - closeCount)
                    ELSE query
        q1 == ReplaceAll(balanced, sOpenSp, <<"(">>)
    IN ReplaceAll(q1, sSpClose, <<")">>)

\* The line after the balancing of parentheses and the replacements.
Preprocess(query) ==
    LET openCount == Count(query, "(")
        closeCount == Count(query, ")")
        balanced == IF openCount > closeCount
                    THEN query \o Repeat(")", openCount - closeCount)
                    ELSE query
        q1 == ReplaceAll(balanced, sOpenSp, <<"(">>)
        q2 == ReplaceAll(q1, sSpClose, <<")">>)
        q3 == ReplaceAll(q2, sSpAndNotSp, sSpAndUNotSp)
        q4 == ReplaceAll(q3, sSpAndSp, sSpAndSp)
    IN ReplaceAll(q4, sSpOrSp, sSpOrSp)

\* tokenize of src/unnamed/part_000.
tokenize(query) ==
    LET q == Preprocess(query)
    IN EmitTokens(q, FindAll(q, 1), 1, <<>>, TRUE)

\* tokenize of src/main.go.
tokenizeMain(query) ==
    LET q == Preprocess(query)
    IN EmitTokens(q, FindAll(q, 1), 1, <<>>, FALSE)

(***************************************************************************)
(* ParsedQuery, isEmptyQuery, cleanupQuery (src/unnamed/part_000)          *)
(***************************************************************************)
Nil == [nil |-> TRUE]
NoField == <<>>

\* &ParsedQuery{}
EmptyQuery == [AND |-> <<>>, OR |-> <<>>, AND_NOT |-> <<>>, Field |-> NoField]

\* ParsedQuery{Field: &Field{Field: f, Value: v}}
LeafQuery(f, v) == [AND |-> <<>>, OR |-> <<>>, AND_NOT |-> <<>>, Field |-> <<f, v>>]

\* Mutant: only the nil pointer is empty.
isEmptyQueryNilOnly(query) == query = Nil

isEmptyQuery(query) ==
    \/ query = Nil
    \/ /\ query.Field = NoField
       /\ Len(query.AND) = 0
       /\ Len(query.OR) = 0
       /\ Len(query.AND_NOT) = 0

RECURSIVE cleanupQuery(_)
RECURSIVE CleanSubs(_)

\* One of the three loops: the cleaned sub-queries that are not empty, in order.
CleanSubs(subs) ==
    IF subs = <<>> THEN <<>>
    ELSE LET cleanedSub == cleanupQuery(Head(subs))
         IN (IF isEmptyQuery(cleanedSub) THEN <<>> ELSE <<cleanedSub>>)
                \o CleanSubs(Tail(subs))

\* Mutant: no collapse of single-item arrays (as in src/main.go).
cleanupQueryNoCollapse(query) ==
    IF query = Nil THEN Nil
    ELSE LET cleaned == [AND |-> CleanSubs(query.AND),
                         OR |-> CleanSubs(query.OR),
                         AND_NOT |-> CleanSubs(query.AND_NOT),
                         Field |-> query.Field]
         IN IF isEmptyQuery(cleaned) THEN Nil ELSE cleaned

\* Mutant: the sub-queries are filtered and the single item returned without
\* the recursive calls.
cleanupQueryShallow(query) ==
    IF query = Nil THEN Nil
    ELSE LET cleaned == [AND |-> SelectSeq(query.AND, LAMBDA q : ~isEmptyQuery(q)),
                         OR |-> SelectSeq(query.OR, LAMBDA q : ~isEmptyQuery(q)),
                         AND_NOT |-> SelectSeq(query.AND_NOT, LAMBDA q : ~isEmptyQuery(q)),
                         Field |-> query.Field]
         IN IF isEmptyQuery(cleaned) THEN Nil
            ELSE IF /\ Len(cleaned.AND) = 1 /\ Len(cleaned.OR) = 0
                    /\ Len(cleaned.AND_NOT) = 0 /\ cleaned.Field = NoField
                 THEN cleaned.AND[1]
            ELSE IF /\ Len(cleaned.OR) = 1 /\ Len(cleaned.AND) = 0
                    /\ Len(cleaned.AND_NOT) = 0 /\ cleaned.Field = NoField
                 THEN cleaned.OR[1]
            ELSE IF /\ Len(cleaned.AND_NOT) = 1 /\ Len(cleaned.AND) = 0
                    /\ Len(cleaned.OR) = 0 /\ cleaned.Field = NoField
                 THEN cleaned.AND_NOT[1]
            ELSE cleaned

cleanupQuery(query) ==
    IF query = Nil THEN Nil
    ELSE LET cleaned == [AND |-> CleanSubs(query.AND),
                         OR |-> CleanSubs(query.OR),
                         AND_NOT |-> CleanSubs(query.AND_NOT),
                         Field |-> query.Field]
         IN IF isEmptyQuery(cleaned) THEN Nil
            ELSE IF /\ Len(cleaned.AND) = 1 /\ Len(cleaned.OR) = 0
                    /\ Len(cleaned.AND_NOT) = 0 /\ cleaned.Field = NoField
                 THEN cleanupQuery(cleaned.AND[1])
            ELSE IF /\ Len(cleaned.OR) = 1 /\ Len(cleaned.AND) = 0
                    /\ Len(cleaned.AND_NOT) = 0 /\ cleaned.Field = NoField
                 THEN cleanupQuery(cleaned.OR[1])
            ELSE IF /\ Len(cleaned.AND_NOT) = 1 /\ Len(cleaned.AND) = 0
                    /\ Len(cleaned.OR) = 0 /\ cleaned.Field = NoField
                 THEN cleanupQuery(cleaned.AND_NOT[1])
            ELSE cleaned

(***************************************************************************)
(* parseTokens (src/unnamed/part_000), one case of the switch per operator.*)
(* A parser state is [stack, current]; a StackItem is [query, operator].   *)
(***************************************************************************)
NewStackItem == [query |-> EmptyQuery, operator |-> TokenAND]

ParserInit == [stack |-> <<>>, current |-> NewStackItem]

\* Mutant: the child is put in front of its bucket.
AppendChildInFront(query, operator, child) ==
    IF operator = TokenAND THEN [query EXCEPT !.AND = <<child>> \o @]
    ELSE IF operator = TokenOR THEN [query EXCEPT !.OR = <<child>> \o @]
    ELSE IF operator = TokenANDNOT THEN [query EXCEPT !.AND_NOT = <<child>> \o @]
    ELSE query

\* The switch on an operator that selects the bucket child is appended to.
AppendChild(query, operator, child) ==
    IF operator = TokenAND THEN [query EXCEPT !.AND = Append(@, child)]
    ELSE IF operator = TokenOR THEN [query EXCEPT !.OR = Append(@, child)]
    ELSE IF operator = TokenANDNOT THEN [query EXCEPT !.AND_NOT = Append(@, child)]
    ELSE query

\* Mutant: a payload of more than two parts is accepted.
FieldStepAnyParts(st, token) ==
    LET parts == Split(token.Value)
    IN IF Len(parts) < 2 THEN st
       ELSE [st EXCEPT !.current.query =
                AppendChild(@, st.current.operator, LeafQuery(parts[1], parts[2]))]

\* case TokenField
FieldStep(st, token) ==
    LET parts == Split(token.Value)
    IN IF Len(parts) # 2 THEN st
       ELSE [st EXCEPT !.current.query =
                AppendChild(@, st.current.operator, LeafQuery(parts[1], parts[2]))]

\* case TokenOR, TokenAND, TokenANDNOT
OperatorStep(st, token) == [st EXCEPT !.current.operator = token.Type]

\* case TokenOpenParen
OpenParenStep(st, token) ==
    [stack |-> Append(st.stack, st.current), current |-> NewStackItem]

\* Mutant: the group is attached by the operator current inside it (as in
\* src/main.go), which also stays current.
CloseParenStepByCurrentOperator(st, token) ==
    IF Len(st.stack) = 0 THEN st
    ELSE LET cleaned == cleanupQuery(st.current.query)
             parent == st.stack[Len(st.stack)]
             attached == IF ~isEmptyQuery(cleaned)
                         THEN AppendChild(parent.query, st.current.operator, cleaned)
                         ELSE parent.query
         IN [stack |-> SubSeq(st.stack, 1, Len(st.stack) - 1),
             current |-> [query |-> attached, operator |-> st.current.operator]]

\* Mutant: a ")" on an empty stack starts over with a new group.
CloseParenStepResetsOnEmptyStack(st, token) ==
    IF Len(st.stack) = 0 THEN [st EXCEPT !.current = NewStackItem]
    ELSE LET cleaned == cleanupQuery(st.current.query)
             parent == st.stack[Len(st.stack)]
             attached == IF ~isEmptyQuery(cleaned)
                         THEN [parent EXCEPT !.query =
                                  AppendChild(@, parent.operator, cleaned)]
                         ELSE parent
         IN [stack |-> SubSeq(st.stack, 1, Len(st.stack) - 1), current |-> attached]

\* case TokenCloseParen
CloseParenStep(st, token) ==
    IF Len(st.stack) = 0 THEN st
    ELSE LET cleaned == cleanupQuery(st.current.query)
             parent == st.stack[Len(st.stack)]
             attached == IF ~isEmptyQuery(cleaned)
                         THEN [parent EXCEPT !.query =
                                  AppendChild(@, parent.operator, cleaned)]
                         ELSE parent
         IN [stack |-> SubSeq(st.stack, 1, Len(st.stack) - 1), current |-> attached]

ParseStep(st, token) ==
    IF token.Type = TokenField THEN FieldStep(st, token)
    ELSE IF IsOperatorType(token.Type) THEN OperatorStep(st, token)
    ELSE IF token.Type = TokenOpenParen THEN OpenParenStep(st, token)
    ELSE IF token.Type = TokenCloseParen THEN CloseParenStep(st, token)
    ELSE st

RECURSIVE ParseFrom(_, _, _)
ParseFrom(st, toks, k) ==
    IF k > Len(toks) THEN st ELSE ParseFrom(ParseStep(st, toks[k]), toks, k + 1)

parseTokens(toks) == cleanupQuery(ParseFrom(ParserInit, toks, 1).current.query)

\* processQuery: [tree, err], err standing for the non-nil error.
processQuery(query) ==
    LET parsedQuery == parseTokens(tokenize(query))
    IN IF isEmptyQuery(parsedQuery)
       THEN [tree |-> Nil, err |-> TRUE]
       ELSE [tree |-> parsedQuery, err |-> FALSE]

(***************************************************************************)
(* isEmptyQuery, cleanupQuery, parseTokens of src/main.go.  currentGroup   *)
(* is current.query (Nil at first), currentOperator is current.operator,   *)
(* the stack holds the groups alone.                                       *)
(***************************************************************************)
RECURSIVE cleanupQueryMain(_)
RECURSIVE CleanItemsMain(_)

\* One of the three loops over []interface{}; every item parseTokens stores is
\* a ParsedQuery value.
CleanItemsMain(items) ==
    IF items = <<>> THEN <<>>
    ELSE LET cleaned == cleanupQueryMain(Head(items))
         IN (IF isEmptyQuery(cleaned) THEN <<>> ELSE <<cleaned>>)
                \o CleanItemsMain(Tail(items))

cleanupQueryMain(query) ==
    IF query = Nil THEN Nil
    ELSE [AND |-> CleanItemsMain(query.AND),
          OR |-> CleanItemsMain(query.OR),
          AND_NOT |-> CleanItemsMain(query.AND_NOT),
          Field |-> query.Field]

MainInit == [stack |-> <<>>, current |-> [query |-> Nil, operator |-> TokenAND]]

\* The switch on currentOperator, AND being its default case.
AppendChildMain(query, operator, child) ==
    IF operator = TokenOR THEN [query EXCEPT !.OR = Append(@, child)]
    ELSE IF operator = TokenANDNOT THEN [query EXCEPT !.AND_NOT = Append(@, child)]
    ELSE [query EXCEPT !.AND = Append(@, child)]

MainFieldStep(st, token) ==
    LET parts == Split(token.Value)
        currentGroup == IF st.current.query = Nil THEN EmptyQuery ELSE st.current.query
    IN IF Len(parts) # 2 THEN st
       ELSE [st EXCEPT !.current.query =
                AppendChildMain(currentGroup, st.current.operator,
                                LeafQuery(parts[1], parts[2]))]

MainOperatorStep(st, token) == [st EXCEPT !.current.operator = token.Type]

MainOpenParenStep(st, token) ==
    [stack |-> IF st.current.query # Nil THEN Append(st.stack, st.current.query)
               ELSE st.stack,
     current |-> [query |-> EmptyQuery, operator |-> st.current.operator]]

MainCloseParenStep(st, token) ==
    IF Len(st.stack) > 0 /\ st.current.query # Nil
    THEN LET parent == st.stack[Len(st.stack)]
             cleaned == cleanupQueryMain(st.current.query)
             attached == IF ~isEmptyQuery(cleaned)
                         THEN AppendChildMain(parent, st.current.operator, cleaned)
                         ELSE parent
         IN [stack |-> SubSeq(st.stack, 1, Len(st.stack) - 1),
             current |-> [query |-> attached, operator |-> st.current.operator]]
    ELSE st

(***************************************************************************)
(* Input lines.                                                            *)
(***************************************************************************)
\* A bare quoted term and a field-function term: the (field, value) it is
\* written for and its text.
BareTerm(v) == [name |-> sAny, value |-> v, text |-> <<Quote>> \o v \o <<Quote>>]
FieldTerm(n, sp, v) ==
    [name |-> n, value |-> v, text |-> n \o sp \o <<"(", Quote>> \o v \o <<Quote, ")">>]

tBareA == BareTerm(<<"a">>)
tTitleB == FieldTerm(sTitle, <<>>, <<"b">>)
tDeep == BareTerm(<<"d", "e", "e", "p", " ", "l", "e", "a", "r", "n", "i", "n", "g">>)
tNeural ==
    BareTerm(<<"n", "e", "u", "r", "a", "l", " ", "n", "e", "t", "w", "o", "r", "k">>)
tSurvey == FieldTerm(sTitle, <<>>, <<"s", "u", "r", "v", "e", "y">>)
tBattery == FieldTerm(sTitleAbsKey, <<>>, <<"b", "a", "t", "t", "e", "r", "y">>)
tRecycling == FieldTerm(sAuthKey, <<>>, <<"r", "e", "c", "y", "c", "l", "i", "n", "g">>)
tTitleAbs == FieldTerm(sTitleAbs, <<" ">>, <<"x">>)

\* The well-formed field terms of the general lines and of the scenarios.
Terms == {tBareA, tTitleB}
ScenarioTerms == Terms \cup {tDeep, tNeural, tSurvey, tBattery, tRecycling, tTitleAbs}
TermTexts == {t.text : t \in Terms}

\* The other pieces of a general line: a value with a colon, a space, the
\* operators, the parentheses, a field function whose value ends in ")" and
\* lacks its closing parenthesis, a quoted "(".
pColon == <<"\"", "c", ":", "d", "\"">>
pSpace == <<" ">>
pOpen == <<"(">>
pClose == <<")">>
pUnclosed == <<"T", "I", "T", "L", "E", "(", "\"", "e", ")", "\"">>
pQuotedParen == <<"\"", "(", "f", "\"">>
\* A field function whose value ends in a backslash.
pEscaped == <<"A", "U", "T", "H", "K", "E", "Y", "(", "\"", "g", "\\", "\"", ")">>

Pieces ==
    TermTexts \cup {pColon, pSpace, sSpOrSp, sSpAndSp, sSpAndNotSp, pOpen, pClose,
                    pUnclosed, pQuotedParen}

RECURSIVE Flatten(_)
Flatten(ps) == IF ps = <<>> THEN <<>> ELSE Head(ps) \o Flatten(Tail(ps))

GeneralInputs == UNION {[1..n -> Pieces] : n \in 0..MaxPieces}

\* (A OR B) AND C
GroupInput(A, B, C) == <<pOpen, A.text, sSpOrSp, B.text, pClose, sSpAndSp, C.text>>
GroupInputs == {GroupInput(A, B, C) : A \in ScenarioTerms, B \in ScenarioTerms,
                                      C \in ScenarioTerms}

\* A AND NOT B
AndNotInput(A, B) == <<A.text, sSpAndNotSp, B.text>>
AndNotInputs == {AndNotInput(A, B) : A \in ScenarioTerms, B \in ScenarioTerms}

\* A AND (B OR C)
InnerOrInput(A, B, C) == <<A.text, sSpAndSp, pOpen, B.text, sSpOrSp, C.text, pClose>>
InnerOrInputs == {InnerOrInput(A, B, C) : A \in Terms, B \in Terms, C \in Terms}

\* The white space characters a line read by the scanner can hold (a line
\* holds no "\n"), and lines with each of them between two terms, between a
\* field name and its parenthesis, and around a term.
LineSpaces ==
    {" ", "\t", VerticalTab, "\f", "\r", NextLine, NoBreakSpace}
        \cup WhiteSpaceAboveLatin1
SpacePieces == {<<w>> : w \in LineSpaces}
WhiteSpaceInputs ==
    UNION {{<<pOpen, tBareA.text, <<w>>, tTitleB.text, pClose>>,
            <<tBareA.text, sSpOrSp, tTitleB.text, <<w>>, tBareA.text>>,
            <<FieldTerm(sTitle, <<w>>, <<"b">>).text>>,
            <<tBareA.text, sSpOrSp, FieldTerm(sAuthKey, <<w, w>>, <<"b">>).text>>,
            <<<<w>>, tBareA.text, <<w>>>>,
            <<<<w>>>>} : w \in LineSpaces}

\* Lines with a backslash before the closing quote.
EscapedInputs ==
    {<<pEscaped>>, <<tBareA.text, pSpace, pEscaped>>, <<pEscaped, sSpOrSp, tTitleB.text>>}

Inputs ==
    GeneralInputs \cup GroupInputs \cup AndNotInputs \cup InnerOrInputs
        \cup WhiteSpaceInputs \cup EscapedInputs

(***************************************************************************)
(* processQuery of src/unnamed/part_000 as a state machine: tokenize, one  *)
(* step per token of parseTokens' loop, parseTokens' return, and           *)
(* processQuery's return.                                                  *)
(***************************************************************************)
\* The line processFile hands to processQuery: the text without the white
\* space around it.
LineOf(ps) == TrimSpace(Flatten(ps))

Init ==
    /\ input \in Inputs
    /\ line = LineOf(input)
    /\ pc = "start"
    /\ tokens = <<>>
    /\ pos = 1
    /\ stack = <<>>
    /\ current = NewStackItem
    /\ saved = <<>>
    /\ parsed = Nil
    /\ result = Nil
    /\ err = FALSE

\* processFile skips a line that is empty once trimmed.
SkipEmptyLine ==
    /\ pc = "start"
    /\ line = <<>>
    /\ pc' = "skipped"
    /\ UNCHANGED <<input, line, tokens, pos, stack, current, saved, parsed, result, err>>

TokenizeLine ==
    /\ pc = "start"
    /\ line # <<>>
    /\ tokens' = tokenize(line)
    /\ pos' = 1
    /\ stack' = ParserInit.stack
    /\ current' = ParserInit.current
    /\ pc' = "parse"
    /\ UNCHANGED <<input, line, saved, parsed, result, err>>

AtToken == pc = "parse" /\ pos <= Len(tokens)

\* The parser state after st, written to the variables.
StepTo(st) ==
    /\ stack' = st.stack
    /\ current' = st.current
    /\ pos' = pos + 1
    /\ UNCHANGED <<input, line, pc, tokens, parsed, result, err>>

\* The history of the operators current at each open parenthesis.
SavedAfter(token) ==
    IF token.Type = TokenOpenParen THEN Append(saved, current.operator)
    ELSE IF token.Type = TokenCloseParen /\ saved # <<>>
         THEN SubSeq(saved, 1, Len(saved) - 1)
         ELSE saved

CaseTokenField ==
    /\ AtToken
    /\ tokens[pos].Type = TokenField
    /\ StepTo(FieldStep([stack |-> stack, current |-> current], tokens[pos]))
    /\ saved' = SavedAfter(tokens[pos])

CaseTokenOperator ==
    /\ AtToken
    /\ IsOperatorType(tokens[pos].Type)
    /\ StepTo(OperatorStep([stack |-> stack, current |-> current], tokens[pos]))
    /\ saved' = SavedAfter(tokens[pos])

CaseTokenOpenParen ==
    /\ AtToken
    /\ tokens[pos].Type = TokenOpenParen
    /\ StepTo(OpenParenStep([stack |-> stack, current |-> current], tokens[pos]))
    /\ saved' = SavedAfter(tokens[pos])

CaseTokenCloseParen ==
    /\ AtToken
    /\ tokens[pos].Type = TokenCloseParen
    /\ StepTo(CloseParenStep([stack |-> stack, current |-> current], tokens[pos]))
    /\ saved' = SavedAfter(tokens[pos])

ParseTokensReturn ==
    /\ pc = "parse"
    /\ pos > Len(tokens)
    /\ parsed' = cleanupQuery(current.query)
    /\ pc' = "parsed"
    /\ UNCHANGED <<input, line, tokens, pos, stack, current, saved, result, err>>

ProcessQueryReturn ==
    /\ pc = "parsed"
    /\ IF isEmptyQuery(parsed)
       THEN result' = Nil /\ err' = TRUE
       ELSE result' = parsed /\ err' = FALSE
    /\ pc' = "done"
    /\ UNCHANGED <<input, line, tokens, pos, stack, current, saved, parsed>>

Next ==
    \/ SkipEmptyLine
    \/ TokenizeLine
    \/ CaseTokenField
    \/ CaseTokenOperator
    \/ CaseTokenOpenParen
    \/ CaseTokenCloseParen
    \/ ParseTokensReturn
    \/ ProcessQueryReturn

Spec == Init /\ [][Next]_vars

(***************************************************************************)
(* processQuery of src/main.go as a state machine over the same lines.     *)
(***************************************************************************)
MainTokenizeLine ==
    /\ pc = "start"
    /\ line # <<>>
    /\ tokens' = tokenizeMain(line)
    /\ pos' = 1
    /\ stack' = MainInit.stack
    /\ current' = MainInit.current
    /\ pc' = "parse"
    /\ UNCHANGED <<input, line, saved, parsed, result, err>>

MainCaseTokenField ==
    /\ AtToken
    /\ tokens[pos].Type = TokenField
    /\ StepTo(MainFieldStep([stack |-> stack, current |-> current], tokens[pos]))
    /\ saved' = SavedAfter(tokens[pos])

MainCaseTokenOperator ==
    /\ AtToken
    /\ IsOperatorType(tokens[pos].Type)
    /\ StepTo(MainOperatorStep([stack |-> stack, current |-> current], tokens[pos]))
    /\ saved' = SavedAfter(tokens[pos])

MainCaseTokenOpenParen ==
    /\ AtToken
    /\ tokens[pos].Type = TokenOpenParen
    /\ StepTo(MainOpenParenStep([stack |-> stack, current |-> current], tokens[pos]))
    /\ saved' = SavedAfter(tokens[pos])

MainCaseTokenCloseParen ==
    /\ AtToken
    /\ tokens[pos].Type = TokenCloseParen
    /\ StepTo(MainCloseParenStep([stack |-> stack, current |-> current], tokens[pos]))
    /\ saved' = SavedAfter(tokens[pos])

MainParseTokensReturn ==
    /\ pc = "parse"
    /\ pos > Len(tokens)
    /\ parsed' = cleanupQueryMain(current.query)
    /\ pc' = "parsed"
    /\ UNCHANGED <<input, line, tokens, pos, stack, current, saved, result, err>>

NextMain ==
    \/ SkipEmptyLine
    \/ MainTokenizeLine
    \/ MainCaseTokenField
    \/ MainCaseTokenOperator
    \/ MainCaseTokenOpenParen
    \/ MainCaseTokenCloseParen
    \/ MainParseTokensReturn
    \/ ProcessQueryReturn

SpecMain == Init /\ [][NextMain]_vars

(***************************************************************************)
(* cleanupQuery of src/unnamed/part_000 applied twice to an arbitrary tree *)
(* of ParsedQuery values, nodes that carry a field together with buckets   *)
(* and empty nodes included.                                               *)
(***************************************************************************)
FieldOpts == {NoField, <<sTitle, <<"a">>>>}

RECURSIVE TreesOfSize(_)
RECURSIVE ForestsOfSize(_)

\* The sequences of trees with m nodes in all.
ForestsOfSize(m) ==
    IF m = 0 THEN {<<>>}
    ELSE UNION {{<<t>> \o f : t \in TreesOfSize(k), f \in ForestsOfSize(m - k)} :
                    k \in 1..m}

\* The trees with n nodes.
TreesOfSize(n) ==
    UNION {{[AND |-> a, OR |-> o, AND_NOT |-> x, Field |-> fld] :
                a \in ForestsOfSize(ij[1]), o \in ForestsOfSize(ij[2]),
                x \in ForestsOfSize(n - 1 - ij[1] - ij[2]), fld \in FieldOpts} :
            ij \in {p \in (0..(n - 1)) \X (0..(n - 1)) : p[1] + p[2] <= n - 1}}

Trees == {Nil} \cup UNION {TreesOfSize(n) : n \in 1..MaxNodes}

InitCleanup ==
    /\ input \in Trees
    /\ line = <<>>
    /\ pc = "clean0"
    /\ tokens = <<>>
    /\ pos = 1
    /\ stack = <<>>
    /\ current = NewStackItem
    /\ saved = <<>>
    /\ parsed = input
    /\ result = Nil
    /\ err = FALSE

\* result := cleanupQuery(T)
CleanupOnce ==
    /\ pc = "clean0"
    /\ result' = cleanupQuery(parsed)
    /\ pc' = "clean1"
    /\ UNCHANGED <<input, line, tokens, pos, stack, current, saved, parsed, err>>

\* result := cleanupQuery(the first result), the first result kept in parsed
CleanupTwice ==
    /\ pc = "clean1"
    /\ parsed' = result
    /\ result' = cleanupQuery(result)
    /\ pc' = "clean2"
    /\ UNCHANGED <<input, line, tokens, pos, stack, current, saved, err>>

NextCleanup == CleanupOnce \/ CleanupTwice

SpecCleanup == InitCleanup /\ [][NextCleanup]_vars

(***************************************************************************)
(* Vocabulary of the properties.                                           *)
(***************************************************************************)
Range(f) == {f[i] : i \in DOMAIN f}

Children(n) == n.AND \o n.OR \o n.AND_NOT

\* Every node of a tree that is not Nil.
RECURSIVE NodesOf(_)
NodesOf(t) == {t} \cup UNION {NodesOf(c) : c \in Range(Children(t))}

IsLeaf(n) == n.Field # NoField /\ Children(n) = <<>>

NonEmptyBuckets(n) ==
    (IF n.AND # <<>> THEN 1 ELSE 0) + (IF n.OR # <<>> THEN 1 ELSE 0)
        + (IF n.AND_NOT # <<>> THEN 1 ELSE 0)

Leaf(t) == LeafQuery(t.name, t.value)

Combinator(and, or, andNot) ==
    [AND |-> and, OR |-> or, AND_NOT |-> andNot, Field |-> NoField]

Done == pc = "done"

\* What processQuery returned, in the shape of the operator processQuery.
Returned == [tree |-> result, err |-> err]

\* The well-formed Field tokens: the payload splits into exactly (field, value).
WellFormedAt(toks, k) == toks[k].Type = TokenField /\ Len(Split(toks[k].Value)) = 2
WellFormedIndices(toks) == {k \in 1..Len(toks) : WellFormedAt(toks, k)}

\* The depth of open groups after the first k tokens, -1 once a ")" had no "(".
RECURSIVE DepthAfter(_, _)
DepthAfter(toks, k) ==
    IF k = 0 THEN 0
    ELSE LET d == DepthAfter(toks, k - 1)
         IN IF d < 0 THEN d
            ELSE IF toks[k].Type = TokenOpenParen THEN d + 1
            ELSE IF toks[k].Type = TokenCloseParen THEN d - 1
            ELSE d

\* OpenParen / CloseParen tokens balanced and properly nested.
ProperlyNested(toks) == DepthAfter(toks, Len(toks)) = 0

(***************************************************************************)
(* C1.  The claim: for field terms A, B, C the line (A OR B) AND C yields  *)
(* And{ Or{A, B}, C }, the group being a node whose only non-empty bucket  *)
(* is OR.                                                                  *)
(***************************************************************************)
\* C1 as claimed: the group holds A and B in its OR bucket alone.
C1_GroupIsOrOfBoth ==
    Done =>
        \A A \in ScenarioTerms, B \in ScenarioTerms, C \in ScenarioTerms :
            input = GroupInput(A, B, C) =>
                /\ ~err
                /\ result = Combinator(<<Combinator(<<>>, <<Leaf(A), Leaf(B)>>, <<>>),
                                         Leaf(C)>>, <<>>, <<>>)

\* C1 as amended: for field terms A, B, C the line (A OR B) AND C yields a root
\* whose AND bucket holds the group and then leaf C and whose other buckets are
\* empty; the group is one node with A in its AND bucket (A is read before the
\* OR) and B in its OR bucket.
C1_GroupKeepsFirstTermInAnd ==
    Done =>
        \A A \in ScenarioTerms, B \in ScenarioTerms, C \in ScenarioTerms :
            input = GroupInput(A, B, C) =>
                /\ ~err
                /\ result = Combinator(<<Combinator(<<Leaf(A)>>, <<Leaf(B)>>, <<>>),
                                         Leaf(C)>>, <<>>, <<>>)

\* The scenario line ("deep learning" OR "neural network") AND TITLE("survey")
\* has been processed.
C1_Witness ==
    /\ Done
    /\ input = GroupInput(tDeep, tNeural, tSurvey)
    /\ Len(result.AND) = 2
    /\ result.AND[1].OR = <<Leaf(tNeural)>>

(***************************************************************************)
(* C2.  The claim: two adjacent field terms separated only by white space  *)
(* parse as with " AND " written between them, whatever operator was       *)
(* written earlier in the line.                                            *)
(***************************************************************************)
\* Pieces i and i + 2 are field terms and piece i + 1 is white space.
AdjacentTerms(i) ==
    /\ i + 2 <= Len(input)
    /\ input[i] \in TermTexts
    /\ input[i + 1] \in SpacePieces
    /\ input[i + 2] \in TermTexts

\* The line with " AND " written between the two terms.
ExplicitAnd(i) == LineOf([input EXCEPT ![i + 1] = sSpAndSp])

\* The type of the token right before the term written as piece i, -1 when the
\* term is the first token: the term is found by writing a marker term for it.
tMarker == BareTerm(<<"@">>)
MarkerToken == [Type |-> TokenField, Value |-> sAny \o <<":">> \o tMarker.value]
TypeBefore(i) ==
    LET toks == tokenize(LineOf([input EXCEPT ![i] = tMarker.text]))
        k == CHOOSE j \in 1..Len(toks) : toks[j] = MarkerToken
    IN IF k = 1 THEN 0 - 1 ELSE toks[k - 1].Type

\* C2 as claimed.
C2_ImplicitAndAlways ==
    Done => \A i \in 1..Len(input) :
                AdjacentTerms(i) => processQuery(ExplicitAnd(i)) = Returned

\* C2 as amended: two adjacent field terms separated only by white space parse
\* as with " AND " between them unless the token right before the first of
\* the two is OR or AND_NOT (then no AND is inserted).
C2_ImplicitAndUnlessAfterOrAndNot ==
    Done => \A i \in 1..Len(input) :
                AdjacentTerms(i) /\ TypeBefore(i) \notin {TokenOR, TokenANDNOT}
                    => processQuery(ExplicitAnd(i)) = Returned

\* ( "a" TITLE("b") has been processed: the AND between the terms is the
\* inserted one.
C2_Witness ==
    /\ Done
    /\ input = <<pOpen, tBareA.text, pSpace, tTitleB.text>>
    /\ AdjacentTerms(2)
    /\ tokens[3] = [Type |-> TokenAND, Value |-> sAND]
    /\ result = Combinator(<<Leaf(tBareA), Leaf(tTitleB)>>, <<>>, <<>>)

(***************************************************************************)
(* C3.  The claim: every node of the returned tree is a leaf or a          *)
(* combinator with exactly one non-empty bucket.                           *)
(***************************************************************************)
\* C3 as claimed.
C3_OneActiveShape ==
    Done /\ ~err =>
        \A n \in NodesOf(result) :
            IsLeaf(n) \/ (n.Field = NoField /\ NonEmptyBuckets(n) = 1)

\* C3 as amended: every node of the returned tree is either a leaf (field set,
\* the three buckets empty) or a combinator without a field, of which one, two
\* or all three of the buckets are non-empty.
C3_LeafOrCombinator ==
    Done /\ ~err =>
        \A n \in NodesOf(result) :
            IsLeaf(n) \/ (n.Field = NoField /\ NonEmptyBuckets(n) >= 1)

\* A tree with a node of two non-empty buckets and a leaf has been returned.
C3_Witness ==
    /\ Done
    /\ ~err
    /\ \E n \in NodesOf(result) : NonEmptyBuckets(n) = 2
    /\ \E n \in NodesOf(result) : IsLeaf(n)

(***************************************************************************)
(* C4.  A AND NOT B yields one node with AND = [A], AND_NOT = [B] and OR   *)
(* empty, for field terms A and B.                                         *)
(***************************************************************************)
C4_AndNotKeepsFirstTermInAnd ==
    Done =>
        \A A \in ScenarioTerms, B \in ScenarioTerms :
            input = AndNotInput(A, B) =>
                /\ ~err
                /\ result = Combinator(<<Leaf(A)>>, <<>>, <<Leaf(B)>>)

\* TITLE-ABS-KEY("battery") AND NOT AUTHKEY("recycling") has been processed.
C4_Witness ==
    /\ Done
    /\ input = AndNotInput(tBattery, tRecycling)
    /\ tokens[2].Type = TokenANDNOT
    /\ result.AND_NOT = <<Leaf(tRecycling)>>

(***************************************************************************)
(* C5.  Normal form: no node of a returned tree is vacuous and none is a   *)
(* singleton wrapper; every node without a field has two children or more. *)
(***************************************************************************)
Vacuous(n) == n.Field = NoField /\ Children(n) = <<>>

SingletonWrapper(n) ==
    n.Field = NoField /\ NonEmptyBuckets(n) = 1 /\ Len(Children(n)) = 1

C5_NormalForm ==
    Done /\ ~err =>
        \A n \in NodesOf(result) :
            /\ ~Vacuous(n)
            /\ ~SingletonWrapper(n)
            /\ n.Field = NoField => Len(Children(n)) >= 2

\* A line of nested groups around one term and a second term has been
\* processed: the wrappers around the first are gone.
C5_Witness ==
    /\ Done
    /\ input = <<pOpen, pOpen, tBareA.text, sSpOrSp>>
    /\ Count(line, "(") = 2
    /\ result = Leaf(tBareA)

(***************************************************************************)
(* C6.  The claim: processQuery signals the empty-result error exactly     *)
(* when the line has no well-formed field term; it never returns an empty  *)
(* tree without an error.                                                  *)
(***************************************************************************)
\* processQuery called on the blank line that processFile skips gives the error.
BlankLineGivesError == pc = "skipped" => processQuery(Flatten(input)).err

\* C6 as claimed.
C6_ErrorIffNoWellFormedTerm ==
    /\ BlankLineGivesError
    /\ Done =>
        /\ err <=> WellFormedIndices(tokens) = {}
        /\ err <=> result = Nil
        /\ ~err => ~isEmptyQuery(result)

\* C6 as amended: processQuery signals the error for every line without a
\* well-formed field term, and returns a non-empty tree and no error for every
\* line with one whose parenthesis tokens are balanced and properly nested
\* (with a ")" before its "(" a line may lose its terms: "a")( gives the
\* error); it returns nil with the error and never an empty tree without it;
\* on a blank line it gives the error.
C6_ErrorIffNoWellFormedTermWhenNested ==
    /\ BlankLineGivesError
    /\ Done =>
        /\ WellFormedIndices(tokens) = {} => err
        /\ ProperlyNested(tokens) /\ WellFormedIndices(tokens) # {} => ~err
        /\ err <=> result = Nil
        /\ ~err => ~isEmptyQuery(result)

\* A line with parentheses whose only field token is malformed has been
\* processed and gave the error.
C6_Witness ==
    /\ Done
    /\ err
    /\ ProperlyNested(tokens)
    /\ \E k \in 1..Len(tokens) : tokens[k].Type = TokenField
    /\ \E k \in 1..Len(tokens) : tokens[k].Type = TokenOpenParen

(***************************************************************************)
(* C7.  The claim: a ")" appended to a line whose parentheses are balanced *)
(* and properly nested changes nothing in what processQuery returns; a ")" *)
(* met while the stack is empty changes neither the current group nor the  *)
(* stack.                                                                  *)
(***************************************************************************)
\* The depth of the parentheses of the first k characters, -1 once negative.
RECURSIVE CharDepthAfter(_, _)
CharDepthAfter(s, k) ==
    IF k = 0 THEN 0
    ELSE LET d == CharDepthAfter(s, k - 1)
         IN IF d < 0 THEN d
            ELSE IF s[k] = "(" THEN d + 1
            ELSE IF s[k] = ")" THEN d - 1
            ELSE d

\* The parentheses of the line are balanced and properly nested.
ValidLine(s) == CharDepthAfter(s, Len(s)) = 0

WithExtraClose(s) == s \o <<")">>

\* The step of a ")" read while the stack is empty.
CloseOnEmptyStackInert ==
    AtToken /\ tokens[pos].Type = TokenCloseParen /\ stack = <<>>
        => stack' = stack /\ current' = current

\* C7 as claimed.
C7_ExtraCloseInert ==
    /\ [](Done /\ ValidLine(line) => processQuery(WithExtraClose(line)) = Returned)
    /\ [][CloseOnEmptyStackInert]_vars

\* C7 as amended: a ")" appended to a line whose OpenParen / CloseParen tokens,
\* as tokenize yields them, are balanced and properly nested changes nothing in
\* what processQuery returns (a parenthesis inside a quoted value is no token:
\* TITLE("e)" is ANY "e)" and TITLE("e)") is TITLE "e)"); a ")" met while the
\* stack is empty changes neither the current group nor the stack.
C7_ExtraCloseInertOnNestedTokens ==
    /\ [](Done /\ ProperlyNested(tokens)
            => processQuery(WithExtraClose(line)) = Returned)
    /\ [][CloseOnEmptyStackInert]_vars

\* ("a")TITLE("b") has been processed, and with one more ")" the tokens
\* end in a CloseParen read on an empty stack.
C7_Witness ==
    /\ Done
    /\ input = <<pOpen, tBareA.text, pClose, tTitleB.text>>
    /\ ValidLine(line)
    /\ ProperlyNested(tokens)
    /\ ~err
    /\ LET more == tokenize(WithExtraClose(line))
       IN /\ more[Len(more)].Type = TokenCloseParen
          /\ ~ProperlyNested(more)

(***************************************************************************)
(* C8.  cleanupQuery is idempotent on every finite tree, Nil standing for  *)
(* the empty result.                                                       *)
(***************************************************************************)
\* After the second application: result is cleanupQuery of parsed, and parsed
\* is cleanupQuery of the tree.
C8_CleanupIdempotent == pc = "clean2" => result = parsed

\* Cleaned twice: a tree whose root carries a field and a bucket, with an empty
\* node and a singleton wrapper below it that the first pass removed.
C8_Witness ==
    /\ pc = "clean2"
    /\ input # Nil
    /\ input.Field # NoField
    /\ \E n \in NodesOf(input) : Vacuous(n)
    /\ \E n \in NodesOf(input) : SingletonWrapper(n)
    /\ parsed # input
    /\ parsed # Nil

(***************************************************************************)
(* C9.  The claim: in both copies of parseTokens the operator is scoped to *)
(* its group: "(" starts the new group with AND; the matching ")" appends  *)
(* the normalized group, if not empty, to the parent's bucket selected by  *)
(* the operator saved at the "(", and that operator is current again.      *)
(***************************************************************************)
\* The step of a "(".
OpenStartsWithAnd ==
    AtToken /\ tokens[pos].Type = TokenOpenParen => current'.operator = TokenAND

\* The step of a ")" that has its "(", for src/unnamed/part_000.
CloseAttachesBySaved ==
    AtToken /\ tokens[pos].Type = TokenCloseParen /\ saved # <<>>
        => LET op == saved[Len(saved)]
               group == cleanupQuery(current.query)
               parent == stack[Len(stack)].query
           IN /\ stack # <<>>
              /\ current'.operator = op
              /\ current'.query = IF isEmptyQuery(group) THEN parent
                                  ELSE AppendChild(parent, op, group)

\* The same step for src/main.go, whose stack holds the groups themselves and
\* whose first group is made on demand.
CloseAttachesBySavedMain ==
    AtToken /\ tokens[pos].Type = TokenCloseParen /\ saved # <<>>
        => LET op == saved[Len(saved)]
               group == cleanupQueryMain(current.query)
               parent == IF stack = <<>> THEN EmptyQuery ELSE stack[Len(stack)]
           IN /\ current'.operator = op
              /\ current'.query = IF isEmptyQuery(group) THEN parent
                                  ELSE AppendChildMain(parent, op, group)

\* C9 for the copy in src/unnamed/part_000.
C9_OperatorScoped == [][OpenStartsWithAnd /\ CloseAttachesBySaved]_vars

\* C9 for the copy in src/main.go.
C9_OperatorScopedMain == [][OpenStartsWithAnd /\ CloseAttachesBySavedMain]_vars

\* A group with an operator inside, written after an operator, has been closed.
C9_Witness ==
    /\ pc = "parse"
    /\ pos > 3
    /\ tokens[pos - 1].Type = TokenCloseParen
    /\ \E k \in 2..(pos - 2) :
          /\ tokens[k].Type = TokenOpenParen
          /\ IsOperatorType(tokens[k - 1].Type)
          /\ \E j \in (k + 1)..(pos - 2) : tokens[j].Type = TokenOR
          /\ \A j \in (k + 1)..(pos - 2) :
                tokens[j].Type \notin {TokenOpenParen, TokenCloseParen}

(***************************************************************************)
(* C10.  For properly nested tokens the leaves of parseTokens' tree are    *)
(* exactly the well-formed Field tokens, each once; within every bucket    *)
(* the children stand in the order of their first tokens; the result is    *)
(* nil only when there is no well-formed Field token.                      *)
(***************************************************************************)
\* The token sequence with the value of the k-th token, when it is a
\* well-formed Field token, replaced by k times "x": its position.
Relabel(toks) ==
    [k \in 1..Len(toks) |->
        IF WellFormedAt(toks, k)
        THEN [toks[k] EXCEPT !.Value =
                 Split(toks[k].Value)[1] \o <<":">> \o [i \in 1..k |-> "x"]]
        ELSE toks[k]]

\* The tree of a relabelled sequence with the payloads of toks put back.
RECURSIVE Unlabel(_, _)
Unlabel(t, toks) ==
    [AND |-> [i \in 1..Len(t.AND) |-> Unlabel(t.AND[i], toks)],
     OR |-> [i \in 1..Len(t.OR) |-> Unlabel(t.OR[i], toks)],
     AND_NOT |-> [i \in 1..Len(t.AND_NOT) |-> Unlabel(t.AND_NOT[i], toks)],
     Field |-> IF t.Field = NoField THEN NoField
               ELSE LET parts == Split(toks[Len(t.Field[2])].Value)
                    IN <<parts[1], parts[2]>>]

\* The positions on the leaves of a relabelled tree, left to right.
RECURSIVE LeafPositions(_)
RECURSIVE LeafPositionsOf(_)
LeafPositionsOf(ts) ==
    IF ts = <<>> THEN <<>> ELSE LeafPositions(Head(ts)) \o LeafPositionsOf(Tail(ts))
LeafPositions(t) ==
    (IF t.Field = NoField THEN <<>> ELSE <<Len(t.Field[2])>>)
        \o LeafPositionsOf(Children(t))

\* The position of the first token of a subtree.
FirstPosition(t) ==
    LET ps == Range(LeafPositions(t))
    IN CHOOSE m \in ps : \A q \in ps : m <= q

InTokenOrder(bucket) ==
    \A i \in 1..Len(bucket), j \in 1..Len(bucket) :
        i < j => FirstPosition(bucket[i]) < FirstPosition(bucket[j])

C10_LeavesAreTheFieldTokens ==
    pc = "parsed" /\ ProperlyNested(tokens) =>
        LET tree == parseTokens(Relabel(tokens))
            wf == WellFormedIndices(tokens)
        IN /\ parsed = Nil <=> wf = {}
           /\ tree = Nil <=> parsed = Nil
           /\ tree # Nil =>
                /\ Unlabel(tree, tokens) = parsed
                /\ Range(LeafPositions(tree)) = wf
                /\ Len(LeafPositions(tree)) = Cardinality(wf)
                /\ \A n \in NodesOf(tree) :
                      InTokenOrder(n.AND) /\ InTokenOrder(n.OR) /\ InTokenOrder(n.AND_NOT)

\* Parsed: a properly nested sequence with a group, a malformed Field token
\* and the same well-formed payload twice.
C10_Witness ==
    /\ pc = "parsed"
    /\ ProperlyNested(tokens)
    /\ \E k \in 1..Len(tokens) : tokens[k].Type = TokenOpenParen
    /\ \E k \in 1..Len(tokens) : tokens[k].Type = TokenField /\ ~WellFormedAt(tokens, k)
    /\ \E k \in WellFormedIndices(tokens), j \in WellFormedIndices(tokens) :
          k # j /\ tokens[k] = tokens[j]
    /\ parsed # Nil

====
